---------------------------- MODULE Spec2Model ----------------------------
(***************************************************************************)
(* Device state and automation engine of the Telegram IoT bot.             *)
(*                                                                         *)
(*   src/src/mqtt/client.py                 SimpleMQTTClient (event        *)
(*                                          router, presence store, bridge)*)
(*   src/src/services/automation_engine.py  AutomationEngine (rules,       *)
(*                                          scheduler)                     *)
(*   src/src/services/data_storage.py       DataStorage                    *)
(*   src/config.py                          Config.MQTT_TOPICS             *)
(*                                                                         *)
(* Strings the code inspects (topics) are sequences of characters, so that *)
(* `in` and split are computed as Python computes them.  A Python dict is  *)
(* a function whose DOMAIN is its key set; an optional value is a sequence *)
(* of length 0 or 1.  Time is datetime.now() in whole seconds.             *)
(***************************************************************************)
EXTENDS Integers, Sequences, FiniteSets, TLC

VARIABLES
    now,                \* datetime.now(), seconds
    device_data,        \* SimpleMQTTClient.device_data: device_id -> dict
    alerts,             \* SimpleMQTTClient.alerts: list of alert dicts
    automation_engine,  \* SimpleMQTTClient.automation_engine is not None
    rules,              \* AutomationEngine.rules, in dict (insertion) order
    scheduled_tasks,    \* AutomationEngine.scheduled_tasks, in dict order
    running,            \* AutomationEngine.running
    sched_pc,           \* position of the start_engine() coroutine
    evals,              \* evaluate_rules runs, one per thread started by the bridge
    alert_history,      \* rows of the alert_history table (DataStorage.store_alert)
    callback,           \* how the last _on_message ended
    submitted,          \* history: device -> the readings it has published
    msg_log,            \* history: the last (topic, payload) the broker delivered
    call_log,           \* history: the last API call and what it returned (n counts
                        \* the engine's calls, flip changes at every call)
    connected,          \* SimpleMQTTClient.connected
    published,          \* what self.client.publish sent, in order
    alert_callback,     \* SimpleMQTTClient.alert_callback and _main_loop are set
    notifications,      \* alert_callback(alert) coroutines scheduled on the main loop
    db_tasks,           \* rows of the scheduled_tasks table of the database file
    stop_called,        \* history: stop_engine() has been called
    handler,            \* the network thread's position inside a status/data handler
    reader              \* the main thread's position inside get_online_devices()

vars == <<now, device_data, alerts, automation_engine, rules, scheduled_tasks,
          running, sched_pc, evals, alert_history, callback, submitted, msg_log,
          call_log, connected, published, alert_callback, notifications, db_tasks,
          stop_called, handler, reader>>

historyVars == <<submitted, msg_log, call_log>>
engineVars == <<rules, scheduled_tasks, running, sched_pc, evals, alert_history>>
netVars == <<connected, published, alert_callback, notifications>>
startupVars == <<db_tasks, stop_called>>
threadVars == <<handler, reader>>

-----------------------------------------------------------------------------
(* Bounds of the model *)

MaxMessages == 2        \* deliveries to _on_message in the router specification
MaxReadings == 102      \* sensor events per device in the history specification
MaxNow == 1             \* the clock stops here in the router specification
MaxPresenceNow == 33    \* the clock stops here in the presence specification
MaxEvals == 2           \* evaluation threads started in the bridge specification
MaxCalls == 1           \* evaluate_rules calls in the engine specification
MaxRules == 2           \* rule creations
MaxSchedNow == 190      \* the clock stops here in the scheduler specification
MaxTasks == 2           \* add_scheduled_task calls
MaxPublished == 2       \* commands published by the handlers
MaxAlerts == 52         \* alert events in the alerts specification

-----------------------------------------------------------------------------
(* Python values *)

\* a dict literal's update / d[k] = v: the key keeps its place, the value is replaced
DictSet(d, k, v) == [x \in (DOMAIN d) \cup {k} |-> IF x = k THEN v ELSE d[x]]

\* d.get(k, default)
DictGet(d, k, default) == IF k \in DOMAIN d THEN d[k] ELSE default

EmptyDict == [x \in {} |-> 0]

\* None, as the value of an optional field
None == <<>>

\* a JSON number / a JSON string, as the value of a sensor key
JNum(n) == [isnum |-> TRUE, n |-> n, s |-> ""]
JStr(s) == [isnum |-> FALSE, n |-> 0, s |-> s]

\* datetime.isoformat(): a string (not a number) that carries the time;
\* datetime.fromisoformat() reads it back
IsoFormat(t) == [isnum |-> FALSE, n |-> t, s |-> "iso"]
FromIsoFormat(x) == x.n

\* mutant: the first n entries (lst[:n]) instead of the last
LastN_KeepsFirst(lst, n) == IF Len(lst) <= n THEN lst ELSE SubSeq(lst, 1, n)

\* lst[-n:] for n > 0
LastN(lst, n) == IF Len(lst) <= n THEN lst ELSE SubSeq(lst, Len(lst) - n + 1, Len(lst))

-----------------------------------------------------------------------------
(* Strings as character sequences: `sub in s` and s.split(c) *)

StrIn(sub, s) ==
    \E i \in 1..(Len(s) - Len(sub) + 1) : SubSeq(s, i, i + Len(sub) - 1) = sub

RECURSIVE StrSplit(_, _)
StrSplit(s, c) ==
    IF \A i \in 1..Len(s) : s[i] # c
    THEN <<s>>
    ELSE LET i == CHOOSE k \in 1..Len(s) : s[k] = c /\ \A j \in 1..(k - 1) : s[j] # c
         IN  <<SubSeq(s, 1, i - 1)>> \o StrSplit(SubSeq(s, i + 1, Len(s)), c)

RECURSIVE StrJoin(_, _)
StrJoin(parts, c) ==
    IF Len(parts) = 1 THEN parts[1]
    ELSE parts[1] \o <<c>> \o StrJoin(Tail(parts), c)

S_iot == <<"i", "o", "t">>
S_devices == <<"d", "e", "v", "i", "c", "e", "s">>
S_status == <<"s", "t", "a", "t", "u", "s">>
S_data == <<"d", "a", "t", "a">>
S_alerts == <<"a", "l", "e", "r", "t", "s">>
S_system == <<"s", "y", "s", "t", "e", "m">>
S_control == <<"c", "o", "n", "t", "r", "o", "l">>

\* the device ids that publish in the model
DeviceIds == {<<"a">>, <<"b">>}

\* Config.MQTT_TOPICS: the four subscriptions of _on_connect, `+` instantiated
StatusTopic(d) == StrJoin(<<S_iot, S_devices, d, S_status>>, "/")
DataTopic(d) == StrJoin(<<S_iot, S_devices, d, S_data>>, "/")
AlertsTopic == StrJoin(<<S_iot, S_alerts>>, "/")
SystemStatusTopic == StrJoin(<<S_iot, S_system, S_status>>, "/")

\* Config.get_device_control_topic(device_id)
ControlTopic(d) == StrJoin(<<S_iot, S_devices, d, S_control>>, "/")

Topics == {StatusTopic(d) : d \in DeviceIds} \cup {DataTopic(d) : d \in DeviceIds}
          \cup {AlertsTopic, SystemStatusTopic}

-----------------------------------------------------------------------------
(* Payloads as the broker delivers them (msg.payload, bytes) *)

\* bytes that are not UTF-8: msg.payload.decode() raises UnicodeDecodeError
BadUtf8 == [kind |-> "badutf8", obj |-> EmptyDict]
\* text that is not JSON: json.loads raises JSONDecodeError
NotJson == [kind |-> "notjson", obj |-> EmptyDict]
\* JSON that is not an object (a number, a list): json.loads returns a non-dict
JsonScalar == [kind |-> "scalar", obj |-> EmptyDict]
\* a JSON object
JsonObject(d) == [kind |-> "object", obj |-> d]

StatusPayload == JsonObject([online |-> TRUE])
FlatReading(v) == JsonObject([temperature |-> JNum(v)])
StampedReading(v, t) == JsonObject([temperature |-> JNum(v), timestamp |-> IsoFormat(t)])
ShapedReading(v) == JsonObject([sensor_type |-> JStr("temperature"), value |-> JNum(v)])
AlertPayload(level) == JsonObject([level |-> level, message |-> "hot"])

RawPayloads == {BadUtf8, NotJson, JsonScalar, StatusPayload, FlatReading(31),
                AlertPayload("WARNING")}

\* msg.payload.decode() succeeds
Decodes(raw) == raw.kind # "badutf8"

\* mutant: a JSONDecodeError falls through with data = {} instead of returning
JsonLoads_FallsThrough(raw) ==
    [ok |-> TRUE, isdict |-> raw.kind # "scalar", obj |-> raw.obj]

\* json.loads(payload): ok (no JSONDecodeError), and the value: a dict or not
JsonLoads(raw) ==
    [ok |-> raw.kind \in {"scalar", "object"}, isdict |-> raw.kind = "object",
     obj |-> raw.obj]

-----------------------------------------------------------------------------
(* Event router: SimpleMQTTClient._on_message and its handlers *)

SENSOR_DATA_KEEP == 100
ALERTS_KEEP == 50

\* _evaluate_automation_rules_async: with an engine attached, a new thread is started
\* for the event.  In that thread asyncio.get_event_loop() finds no loop, a new loop
\* is made, and run_until_complete(evaluate_rules(device_id, sensor_data)) runs there.
NewEval(device_id, sensor_data) ==
    [device |-> device_id, reading |-> sensor_data, pc |-> "start", idx |-> 0,
     size |-> 0, obj |-> 0, tmp |-> 0, fired |-> 0, pre |-> <<>>, pre_alerts |-> 0]

\* mutant: no thread is started while an evaluation of the same device is unfinished
evaluate_automation_rules_async_Coalesces(device_id, sensor_data) ==
    IF automation_engine
       /\ \A i \in 1..Len(evals) : evals[i].device = device_id => evals[i].pc = "done"
    THEN Append(evals, NewEval(device_id, sensor_data))
    ELSE evals

evaluate_automation_rules_async(device_id, sensor_data) ==
    IF automation_engine THEN Append(evals, NewEval(device_id, sensor_data)) ELSE evals

\* mutant: the index is off by one (parts[1], the literal "devices")
TopicDeviceId_OffByOne(parts) == parts[2]

\* device_id = parts[2] of topic.split('/')
TopicDeviceId(parts) == parts[3]

\* _handle_device_status: what it leaves in device_data, and whether it raised
handle_device_status(topic, data) ==
    LET parts == StrSplit(topic, "/") IN
    IF Len(parts) >= 3
    THEN LET device_id == TopicDeviceId(parts)
             dd1 == IF device_id \notin DOMAIN device_data
                    THEN DictSet(device_data, device_id, EmptyDict)
                    ELSE device_data
             rec1 == DictSet(dd1[device_id], "status", data.obj)
             rec2 == DictSet(rec1, "last_seen", IsoFormat(now))
             rec3 == DictSet(rec2, "online", TRUE)
         IN  IF data.isdict
             THEN [dd |-> DictSet(dd1, device_id, rec3), raised |-> FALSE]
             ELSE [dd |-> dd1, raised |-> TRUE]     \* data.get: AttributeError
    ELSE [dd |-> device_data, raised |-> FALSE]

\* mutant: the cut keeps the first 100 entries ([:100]) instead of the last
AppendReading_KeepsOldest(lst, data) ==
    LET l2 == Append(lst, data)
    IN  IF Len(l2) > SENSOR_DATA_KEEP THEN SubSeq(l2, 1, SENSOR_DATA_KEEP) ELSE l2

\* list.append followed by the [-100:] cut of client.py:203-205
AppendReading(lst, data) ==
    LET l2 == Append(lst, data)
    IN  IF Len(l2) > SENSOR_DATA_KEEP THEN LastN(l2, SENSOR_DATA_KEEP) ELSE l2

\* mutant: last_seen is taken from the payload's timestamp when it has one
handle_device_data_DeviceTime(topic, data) ==
    LET parts == StrSplit(topic, "/") IN
    IF Len(parts) >= 3 /\ data.isdict
    THEN LET device_id == TopicDeviceId(parts)
             dd1 == IF device_id \notin DOMAIN device_data
                    THEN DictSet(device_data, device_id, EmptyDict)
                    ELSE device_data
             rec1 == IF "sensor_data" \notin DOMAIN dd1[device_id]
                     THEN DictSet(dd1[device_id], "sensor_data", <<>>)
                     ELSE dd1[device_id]
             data2 == IF "timestamp" \notin DOMAIN data.obj
                      THEN DictSet(data.obj, "timestamp", IsoFormat(now))
                      ELSE data.obj
             rec2 == DictSet(rec1, "online", TRUE)
             rec3 == DictSet(rec2, "last_seen", data2["timestamp"])
             rec4 == DictSet(rec3, "sensor_data",
                             AppendReading(rec3["sensor_data"], data2))
         IN  [dd |-> DictSet(dd1, device_id, rec4), dispatch |-> <<device_id, data2>>,
              raised |-> FALSE]
    ELSE [dd |-> device_data, dispatch |-> <<>>,
          raised |-> (Len(parts) >= 3 /\ ~data.isdict)]

\* _handle_device_data: device_data afterwards, the (device_id, data) handed to the
\* bridge, and whether it raised
handle_device_data(topic, data) ==
    LET parts == StrSplit(topic, "/") IN
    IF Len(parts) >= 3 /\ data.isdict
    THEN LET device_id == TopicDeviceId(parts)
             dd1 == IF device_id \notin DOMAIN device_data
                    THEN DictSet(device_data, device_id, EmptyDict)
                    ELSE device_data
             rec1 == IF "sensor_data" \notin DOMAIN dd1[device_id]
                     THEN DictSet(dd1[device_id], "sensor_data", <<>>)
                     ELSE dd1[device_id]
             data2 == IF "timestamp" \notin DOMAIN data.obj
                      THEN DictSet(data.obj, "timestamp", IsoFormat(now))
                      ELSE data.obj
             rec2 == DictSet(rec1, "online", TRUE)
             rec3 == DictSet(rec2, "last_seen", IsoFormat(now))
             rec4 == DictSet(rec3, "sensor_data",
                             AppendReading(rec3["sensor_data"], data2))
         IN  [dd |-> DictSet(dd1, device_id, rec4), dispatch |-> <<device_id, data2>>,
              raised |-> FALSE]
    ELSE [dd |-> device_data, dispatch |-> <<>>,
          raised |-> (Len(parts) >= 3 /\ ~data.isdict)]  \* data.get: AttributeError

\* the levels of `alert['level'] in ['WARNING', 'CRITICAL', 'ERROR']`
NOTIFY_LEVELS == {"WARNING", "CRITICAL", "ERROR"}

\* _handle_alert: the alerts list afterwards, the alert to notify of, raised
handle_alert(data) ==
    IF data.isdict
    THEN LET alert == [timestamp |-> DictGet(data.obj, "timestamp", IsoFormat(now)),
                       level |-> DictGet(data.obj, "level", "INFO"),
                       message |-> DictGet(data.obj, "message", ""),
                       device_id |-> DictGet(data.obj, "device_id", ""),
                       source |-> DictGet(data.obj, "source", "system")]
             a2 == Append(alerts, alert)
         IN  [alerts |-> IF Len(a2) > ALERTS_KEEP THEN LastN(a2, ALERTS_KEEP) ELSE a2,
              notify |-> IF alert.level \in NOTIFY_LEVELS THEN <<alert>> ELSE <<>>,
              raised |-> FALSE]
    ELSE [alerts |-> alerts, notify |-> <<>>, raised |-> TRUE] \* data.get: AttributeError

\* _send_alert_notification: with a callback and a loop registered, the coroutine is
\* handed to the main loop (run_coroutine_threadsafe); otherwise nothing happens
send_alert_notification(queue, alert) ==
    IF alert_callback THEN Append(queue, alert) ELSE queue

\* the branch of _on_message's if/elif chain that a topic takes (client.py:136-143)
Route(topic) ==
    IF StrIn(<<"/">> \o S_status, topic) THEN "status"
    ELSE IF StrIn(<<"/">> \o S_data, topic) THEN "data"
    ELSE IF StrIn(S_alerts, topic) THEN "alerts"
    ELSE IF StrIn(S_system, topic) THEN "system"
    ELSE "none"

\* one delivery of (topic, payload) to _on_message, on the network thread
on_message(topic, raw) ==
    LET data == JsonLoads(raw)
        h == IF Decodes(raw) /\ data.ok THEN Route(topic) ELSE "dropped"
        st == handle_device_status(topic, data)
        da == handle_device_data(topic, data)
        al == handle_alert(data)
        raised == \/ ~Decodes(raw)
                  \/ h = "status" /\ st.raised
                  \/ h = "data" /\ da.raised
                  \/ h = "alerts" /\ al.raised
    IN  /\ device_data' = CASE h = "status" -> st.dd
                            [] h = "data" -> da.dd
                            [] OTHER -> device_data
        /\ alerts' = IF h = "alerts" THEN al.alerts ELSE alerts
        /\ evals' = IF h = "data" /\ da.dispatch # <<>>
                    THEN evaluate_automation_rules_async(da.dispatch[1], da.dispatch[2])
                    ELSE evals
        \* client.py:131-133 returns on a JSONDecodeError; every other exception
        \* reaches the except of client.py:145, which logs it
        /\ callback' = IF raised THEN "error_logged"
                       ELSE IF ~data.ok THEN "invalid_json" ELSE "returned"
        /\ notifications' = IF h = "alerts" /\ al.notify # <<>>
                            THEN send_alert_notification(notifications, al.notify[1])
                            ELSE notifications
        /\ UNCHANGED <<now, automation_engine, rules, scheduled_tasks, running,
                       sched_pc, alert_history>>
        /\ UNCHANGED <<connected, published, alert_callback, startupVars, threadVars>>

\* the broker delivers what a publisher sent: the history of the delivery
Published(topic, raw) ==
    /\ msg_log' = [n |-> msg_log.n + 1, topic |-> topic, kind |-> raw.kind]
    /\ submitted' = [d \in DeviceIds |->
                        IF topic = DataTopic(d) /\ raw.kind = "object"
                        THEN Append(submitted[d], raw.obj) ELSE submitted[d]]
    /\ UNCHANGED call_log

-----------------------------------------------------------------------------
(* Presence store: reads *)

ONLINE_TIMEOUT_SECONDS == 30

\* mutant: the comparison is strict (time_diff < timeout_seconds)
IsOnlineResult_Strict(device_id) ==
    LET data == DictGet(device_data, device_id, EmptyDict)
    IN  IF "last_seen" \notin DOMAIN data THEN FALSE
        ELSE now - FromIsoFormat(data["last_seen"]) < 30

\* is_device_online(device_id): the value returned
IsOnlineResult(device_id) ==
    LET data == DictGet(device_data, device_id, EmptyDict)
    IN  IF "last_seen" \notin DOMAIN data THEN FALSE
        ELSE now - FromIsoFormat(data["last_seen"]) <= ONLINE_TIMEOUT_SECONDS

\* is_device_online's write of data['online'] into the live record (client.py:334)
OnlineWritten(dd, device_id) ==
    IF device_id \in DOMAIN dd /\ "last_seen" \in DOMAIN dd[device_id]
    THEN DictSet(dd, device_id, DictSet(dd[device_id], "online", IsOnlineResult(device_id)))
    ELSE dd

is_device_online(device_id) ==
    /\ device_data' = OnlineWritten(device_data, device_id)
    /\ call_log' = [n |-> call_log.n, flip |-> ~call_log.flip, op |-> "is_device_online", arg |-> device_id,
                    ret |-> IsOnlineResult(device_id)]
    /\ UNCHANGED <<now, alerts, automation_engine, callback, submitted, msg_log>>
    /\ UNCHANGED engineVars
    /\ UNCHANGED <<netVars, startupVars, threadVars>>

\* get_device_data(device_id): the stored record itself, None for an unknown device
get_device_data(device_id) == DictGet(device_data, device_id, None)

\* get_all_devices(): the stored dict itself
get_all_devices == device_data

\* get_online_devices(): is_device_online on every key, the online ones returned
get_online_devices ==
    /\ device_data' = [d \in DOMAIN device_data |-> OnlineWritten(device_data, d)[d]]
    /\ call_log' = [n |-> call_log.n, flip |-> ~call_log.flip, op |-> "get_online_devices", arg |-> <<>>,
                    ret |-> {d \in DOMAIN device_data : IsOnlineResult(d)}]
    /\ UNCHANGED <<now, alerts, automation_engine, callback, submitted, msg_log>>
    /\ UNCHANGED engineVars
    /\ UNCHANGED <<netVars, startupVars, threadVars>>

\* lst[-n:] for n >= 0: -0 is 0, so lst[-0:] is lst[0:], the whole list
SliceFromMinus(lst, n) == IF n = 0 THEN lst ELSE LastN(lst, n)

\* get_recent_alerts(limit): self.alerts[-limit:] if self.alerts else []
get_recent_alerts(limit) ==
    /\ call_log' = [n |-> call_log.n, flip |-> ~call_log.flip,
                    op |-> "get_recent_alerts", arg |-> limit,
                    ret |-> IF alerts # <<>> THEN SliceFromMinus(alerts, limit)
                            ELSE <<>>]
    /\ UNCHANGED <<now, device_data, alerts, automation_engine, callback, submitted,
                   msg_log>>
    /\ UNCHANGED engineVars
    /\ UNCHANGED <<netVars, startupVars, threadVars>>

-----------------------------------------------------------------------------
(* The clock *)

Advance(dt) ==
    /\ now' = now + dt
    /\ UNCHANGED <<device_data, alerts, automation_engine, rules, scheduled_tasks,
                   running, sched_pc, evals, alert_history, callback, submitted,
                   msg_log, call_log>>
    /\ UNCHANGED <<netVars, startupVars, threadVars>>

-----------------------------------------------------------------------------
(* Rule engine: AutomationEngine *)

\* what a DataStorage object has: db_path and its methods (data_storage.py:15-326)
DataStorageAttributes ==
    {"db_path", "init_database", "store_sensor_data", "store_device_status",
     "store_alert", "get_sensor_history", "get_device_uptime", "get_recent_alerts",
     "cleanup_old_data"}

\* `with self.storage.storage.connect(self.storage.db_path)`: self.storage is the
\* DataStorage, which has no attribute `storage`, so the expression raises
\* AttributeError before any SQL runs
StorageConnectRaises == "storage" \notin DataStorageAttributes

\* DataStorage.store_alert(device_id, alert_type, level, message): one more row
store_alert(history, device_id, alert_type, level, message) ==
    Append(history, [device_id |-> device_id, alert_type |-> alert_type,
                     level |-> level, message |-> message])

\* mutant: the rules are kept in a list and every add appends
RulesSet_AlwaysAppends(rs, rule) == Append(rs, rule)

\* self.rules[rule_id] = rule: an existing key keeps its place in the dict
RulesSet(rs, rule) ==
    IF \E i \in 1..Len(rs) : rs[i].rule_id = rule.rule_id
    THEN [i \in 1..Len(rs) |-> IF rs[i].rule_id = rule.rule_id THEN rule ELSE rs[i]]
    ELSE Append(rs, rule)

\* Rule(rule_id, name, description, condition, action); oid is the object's identity
NewRule(rule_id, condition, action, oid) ==
    [rule_id |-> rule_id, condition |-> condition, action |-> action, enabled |-> TRUE,
     last_triggered |-> <<>>, trigger_count |-> 0, oid |-> oid]

\* add_rule: the dict afterwards and the value returned (True only when the INSERT ran)
add_rule(rule_id, condition, action, oid) ==
    [rules |-> RulesSet(rules, NewRule(rule_id, condition, action, oid)),
     ret |-> ~StorageConnectRaises]

\* f"threshold_{device_id}_{sensor_type}_{threshold}"
ThresholdRuleId(device_id, sensor_type, threshold) ==
    <<"threshold", device_id, sensor_type, threshold>>

create_threshold_rule(device_id, sensor_type, threshold, operator, alert_level) ==
    LET rule_id == ThresholdRuleId(device_id, sensor_type, threshold)
        condition == [type |-> "sensor_threshold", device_id |-> device_id,
                      sensor_type |-> sensor_type, operator |-> operator,
                      threshold |-> threshold]
        action == [type |-> "send_alert", level |-> alert_level,
                   message |-> <<sensor_type, operator, threshold, device_id>>]
    IN  /\ rules' = add_rule(rule_id, condition, action, call_log.n + 1).rules
        /\ call_log' = [n |-> call_log.n + 1, flip |-> ~call_log.flip,
                        op |-> "create_threshold_rule",
                        arg |-> <<device_id, sensor_type, threshold, operator>>,
                        ret |-> rule_id]
        /\ UNCHANGED <<now, device_data, alerts, automation_engine, scheduled_tasks,
                       running, sched_pc, evals, alert_history, callback, submitted,
                       msg_log>>
        /\ UNCHANGED <<netVars, startupVars, threadVars>>

\* mutant: `>` is evaluated as `>=`
Compares_GtIsGe(value, operator, threshold) ==
    CASE operator = ">" -> value.isnum /\ value.n >= threshold
      [] operator = "<" -> value.isnum /\ value.n < threshold
      [] operator = ">=" -> value.isnum /\ value.n >= threshold
      [] operator = "<=" -> value.isnum /\ value.n <= threshold
      [] operator = "==" -> value.isnum /\ value.n = threshold
      [] OTHER -> FALSE

\* value <op> threshold in Python: an ordering of a str with a number raises TypeError,
\* == of a str with a number is False
Compares(value, operator, threshold) ==
    CASE operator = ">" -> value.isnum /\ value.n > threshold
      [] operator = "<" -> value.isnum /\ value.n < threshold
      [] operator = ">=" -> value.isnum /\ value.n >= threshold
      [] operator = "<=" -> value.isnum /\ value.n <= threshold
      [] operator = "==" -> value.isnum /\ value.n = threshold
      [] OTHER -> FALSE

\* isinstance(expected_value, dict): a range {min, max}, not a JSON scalar
IsDict(expected_value) == "isnum" \notin DOMAIN expected_value

\* mutant: a range is open at its ends
ExpectedHolds_OpenRange(value, expected_value) ==
    IF IsDict(expected_value)
    THEN /\ "min" \in DOMAIN expected_value =>
                value.isnum /\ value.n > expected_value.min
         /\ "max" \in DOMAIN expected_value =>
                value.isnum /\ value.n < expected_value.max
    ELSE value = expected_value

\* one key of a device_condition against the reading: a range bounds the value on
\* the sides it names (ordering a str with a number raises TypeError), a scalar
\* has to be equal
ExpectedHolds(value, expected_value) ==
    IF IsDict(expected_value)
    THEN /\ "min" \in DOMAIN expected_value =>
                value.isnum /\ ~(value.n < expected_value.min)
         /\ "max" \in DOMAIN expected_value =>
                value.isnum /\ ~(value.n > expected_value.max)
    ELSE value = expected_value

\* mutant: a condition of a type the engine does not know holds
evaluate_condition_UnknownTypeHolds(condition, device_id, sensor_data) ==
    IF condition.type = "sensor_threshold"
    THEN /\ condition.device_id = device_id
         /\ condition.sensor_type \in DOMAIN sensor_data
         /\ Compares(sensor_data[condition.sensor_type], condition.operator,
                     condition.threshold)
    ELSE IF condition.type = "device_condition"
    THEN /\ condition.device_id = device_id
         /\ \A key \in DOMAIN condition \ {"type", "device_id"} :
                /\ key \in DOMAIN sensor_data
                /\ ExpectedHolds(sensor_data[key], condition[key])
    ELSE TRUE

\* _evaluate_condition: sensor_threshold, device_condition (every key other than
\* type and device_id has to be in the reading and to hold), False for any other
\* type; any exception gives False
evaluate_condition(condition, device_id, sensor_data) ==
    IF condition.type = "sensor_threshold"
    THEN /\ condition.device_id = device_id
         /\ condition.sensor_type \in DOMAIN sensor_data
         /\ Compares(sensor_data[condition.sensor_type], condition.operator,
                     condition.threshold)
    ELSE IF condition.type = "device_condition"
    THEN /\ condition.device_id = device_id
         /\ \A key \in DOMAIN condition \ {"type", "device_id"} :
                /\ key \in DOMAIN sensor_data
                /\ ExpectedHolds(sensor_data[key], condition[key])
    ELSE FALSE

\* publish_device_command(device_id, command): what has been published afterwards,
\* and whether the call raised (ConnectionError when not connected)
publish_device_command(pub, device_id, command) ==
    IF ~connected
    THEN [published |-> pub, raised |-> TRUE]
    ELSE [published |-> Append(pub, [topic |-> ControlTopic(device_id),
                                     source |-> "telegram_bot", command |-> command]),
          raised |-> FALSE]

\* {**base, **extra}: a key of extra replaces the same key of base
DictMerge(base, extra) ==
    [k \in DOMAIN base \cup DOMAIN extra |->
        IF k \in DOMAIN extra THEN extra[k] ELSE base[k]]

\* f"control_{trigger_device}_{target_device}_{datetime.now().timestamp()}": stamp is
\* the clock reading of the call, which differs from one call to the next
ControlRuleId(trigger_device, target_device, stamp) ==
    <<"control", trigger_device, target_device, stamp>>

create_device_control_rule(trigger_device, trigger_condition, target_device, target_action) ==
    LET stamp == call_log.n + 1
        rule_id == ControlRuleId(trigger_device, target_device, stamp)
        condition == DictMerge([type |-> "device_condition",
                                device_id |-> trigger_device], trigger_condition)
        action == DictMerge([type |-> "control_device", device_id |-> target_device],
                            target_action)
    IN  /\ rules' = add_rule(rule_id, condition, action, stamp).rules
        /\ call_log' = [n |-> call_log.n + 1, flip |-> ~call_log.flip,
                        op |-> "create_device_control_rule",
                        arg |-> <<trigger_device, target_device>>,
                        ret |-> rule_id]
        /\ UNCHANGED <<now, device_data, alerts, automation_engine, scheduled_tasks,
                       running, sched_pc, evals, alert_history, callback, submitted,
                       msg_log>>
        /\ UNCHANGED <<netVars, startupVars, threadVars>>

\* action.get(key, default)
ActionGet(action, key, default) ==
    IF key \in DOMAIN action THEN action[key] ELSE default

\* _handle_control_device: the engine is constructed with the MQTT client; with a
\* target device the command is published, and an exception is logged
handle_control_device(pub, action) ==
    IF ActionGet(action, "device_id", None) # None
    THEN publish_device_command(pub, ActionGet(action, "device_id", None),
                                ActionGet(action, "command", "")).published
    ELSE pub

\* a caller (a bot handler) calls publish_device_command(device_id, command)
publish_command_call(device_id, command) ==
    LET r == publish_device_command(published, device_id, command) IN
    /\ published' = r.published
    /\ call_log' = [n |-> call_log.n, flip |-> ~call_log.flip,
                    op |-> "publish_device_command", arg |-> device_id,
                    ret |-> IF r.raised THEN "raised" ELSE "sent"]
    /\ UNCHANGED <<now, device_data, alerts, automation_engine, callback, submitted,
                   msg_log, connected, alert_callback, notifications, startupVars, threadVars>>
    /\ UNCHANGED engineVars

\* IoTCommands.control_device(update, device_id, command): the stored record and its
\* stored 'online' value decide; the reply is the value returned here
control_device(device_id, command) ==
    LET rec == DictGet(device_data, device_id, EmptyDict)
        r == publish_device_command(published, device_id, command)
        reply == IF DOMAIN rec = {} THEN "not_found"
                 ELSE IF ~DictGet(rec, "online", FALSE) THEN "offline"
                 ELSE IF r.raised THEN "error" ELSE "sent"
    IN  /\ published' = IF reply = "sent" THEN r.published ELSE published
        /\ call_log' = [n |-> call_log.n, flip |-> ~call_log.flip,
                        op |-> "control_device", arg |-> device_id, ret |-> reply]
        /\ UNCHANGED <<now, device_data, alerts, automation_engine, callback,
                       submitted, msg_log, connected, alert_callback, notifications,
                       startupVars, threadVars>>
        /\ UNCHANGED engineVars

\* set_alert_callback(callback, loop): main registers the bot's coroutine and its loop
set_alert_callback ==
    /\ alert_callback' = TRUE
    /\ UNCHANGED <<now, device_data, alerts, automation_engine, callback, submitted,
                   msg_log, call_log, connected, published, notifications, startupVars, threadVars>>
    /\ UNCHANGED engineVars

\* _on_connect with rc == 0
on_connect ==
    /\ connected' = TRUE
    /\ UNCHANGED <<now, device_data, alerts, automation_engine, callback, submitted,
                   msg_log, call_log, published, alert_callback, notifications,
                   startupVars, threadVars>>
    /\ UNCHANGED engineVars

\* _on_disconnect
on_disconnect ==
    /\ connected' = FALSE
    /\ UNCHANGED <<now, device_data, alerts, automation_engine, callback, submitted,
                   msg_log, call_log, published, alert_callback, notifications,
                   startupVars, threadVars>>
    /\ UNCHANGED engineVars

\* _execute_action: what has been published after the handler of action.type ran
execute_action_published(pub, action) ==
    IF action.type = "control_device" THEN handle_control_device(pub, action) ELSE pub

\* _execute_action: the alert_history table after the handler of action.type ran
\* (send_alert stores a row; send_telegram and log_event only log; an unknown type
\* is logged; no exception leaves _execute_action)
execute_action(history, action, device_id) ==
    IF action.type = "send_alert"
    THEN store_alert(history, device_id, "automation_rule", action.level,
                     action.message)
    ELSE history

\* evaluate_rules, step by step.  A run is at "start" until its coroutine begins,
\* at "iter" between two rules of `for rule_id, rule in self.rules.items()`, at
\* "store" between the read and the write of `rule.trigger_count += 1`.
eval_begin(i) ==
    /\ evals[i].pc = "start"
    /\ evals' = [evals EXCEPT ![i].pc = "iter", ![i].idx = 1, ![i].size = Len(rules),
                              ![i].pre = rules, ![i].pre_alerts = Len(alert_history)]
    /\ UNCHANGED <<now, device_data, alerts, automation_engine, rules, scheduled_tasks,
                   running, sched_pc, alert_history, callback, submitted, msg_log,
                   call_log>>
    /\ UNCHANGED <<netVars, startupVars, threadVars>>

eval_rule(i) ==
    LET e == evals[i] IN
    /\ e.pc = "iter"
    /\ IF Len(rules) # e.size \/ e.idx > Len(rules)
       THEN \* the dict changed size (RuntimeError, caught at line 201) or is exhausted
            /\ evals' = [evals EXCEPT ![i].pc = "done"]
            /\ UNCHANGED <<rules, alert_history, published>>
       ELSE LET rule == rules[e.idx] IN
            IF rule.enabled /\ evaluate_condition(rule.condition, e.device, e.reading)
            THEN /\ alert_history' = execute_action(alert_history, rule.action, e.device)
                 /\ published' = execute_action_published(published, rule.action)
                 /\ rules' = [rules EXCEPT ![e.idx].last_triggered = <<now>>]
                 /\ evals' = [evals EXCEPT ![i].pc = "store", ![i].obj = rule.oid,
                                           ![i].tmp = rule.trigger_count,
                                           ![i].fired = e.fired + 1]
            ELSE /\ evals' = [evals EXCEPT ![i].idx = e.idx + 1]
                 /\ UNCHANGED <<rules, alert_history, published>>
    /\ UNCHANGED <<now, device_data, alerts, automation_engine, scheduled_tasks,
                   running, sched_pc, callback, submitted, msg_log, call_log>>
    /\ UNCHANGED <<connected, alert_callback, notifications, startupVars, threadVars>>

\* the write of trigger_count to the Rule object the run holds, then the UPDATE:
\* when connecting raises, the except of line 201 ends the run with the remaining
\* rules not looked at
eval_store(i) ==
    LET e == evals[i] IN
    /\ e.pc = "store"
    /\ rules' = [k \in 1..Len(rules) |->
                    IF rules[k].oid = e.obj
                    THEN [rules[k] EXCEPT !.trigger_count = e.tmp + 1]
                    ELSE rules[k]]
    /\ evals' = IF StorageConnectRaises
                THEN [evals EXCEPT ![i].pc = "done"]
                ELSE [evals EXCEPT ![i].pc = "iter", ![i].idx = e.idx + 1]
    /\ UNCHANGED <<now, device_data, alerts, automation_engine, scheduled_tasks,
                   running, sched_pc, alert_history, callback, submitted, msg_log,
                   call_log>>
    /\ UNCHANGED <<netVars, startupVars, threadVars>>

\* a caller on the event loop awaits evaluate_rules(device_id, sensor_data)
evaluate_rules(device_id, sensor_data) ==
    /\ evals' = Append(evals, NewEval(device_id, sensor_data))
    /\ UNCHANGED <<now, device_data, alerts, automation_engine, rules, scheduled_tasks,
                   running, sched_pc, alert_history, callback, submitted, msg_log,
                   call_log>>
    /\ UNCHANGED <<netVars, startupVars, threadVars>>

NoneRunning == \A i \in 1..Len(evals) : evals[i].pc = "done"

-----------------------------------------------------------------------------
(* Scheduler: add_scheduled_task, process_scheduled_tasks and the start_engine     *)
(* loop.  self.scheduled_tasks is an insertion-ordered dict, kept as a sequence.   *)
(* Times are seconds; a cron expression is kept by its period.                     *)

SLEEP_SECONDS == 60

\* croniter(schedule, ...) raises for an expression it cannot parse
CronValid(schedule) == schedule \in {"* * * * *", "*/2 * * * *"}

CronPeriod(schedule) ==
    IF schedule = "* * * * *" THEN 60 ELSE 120

\* croniter(schedule, t).get_next(datetime): the first fire time strictly after t
CronNext(schedule, t) == CronPeriod(schedule) * ((t \div CronPeriod(schedule)) + 1)

\* self.scheduled_tasks[task_id] = task: an existing key keeps its place in the dict
TasksSet(ts, task) ==
    IF \E i \in 1..Len(ts) : ts[i].task_id = task.task_id
    THEN [i \in 1..Len(ts) |-> IF ts[i].task_id = task.task_id THEN task ELSE ts[i]]
    ELSE Append(ts, task)

\* ScheduledTask(task_id, name, schedule, action, next_run=next_run)
NewTask(task_id, schedule, action, next_run) ==
    [task_id |-> task_id, schedule |-> schedule, action |-> action, enabled |-> TRUE,
     last_run |-> None, next_run |-> <<next_run>>, run_count |-> 0]

\* add_scheduled_task: an unparseable schedule adds nothing; otherwise the task is in
\* the dict before the INSERT, whose failure makes the call return False
add_scheduled_task(task_id, schedule, action) ==
    /\ scheduled_tasks' =
           IF CronValid(schedule)
           THEN TasksSet(scheduled_tasks,
                         NewTask(task_id, schedule, action, CronNext(schedule, now)))
           ELSE scheduled_tasks
    /\ call_log' = [n |-> call_log.n + 1, flip |-> call_log.flip,
                    op |-> "add_scheduled_task", arg |-> <<task_id, schedule>>,
                    ret |-> CronValid(schedule) /\ ~StorageConnectRaises]
    /\ UNCHANGED <<now, device_data, alerts, automation_engine, rules, running,
                   sched_pc, evals, alert_history, callback, submitted, msg_log>>
    /\ UNCHANGED <<netVars, startupVars, threadVars>>

\* mutant: the next run is the previous next_run advanced by one period
RecomputedNextRun_FromPrevious(task, current_time) ==
    <<task.next_run[1] + CronPeriod(task.schedule)>>

\* croniter(task.schedule, current_time).get_next(datetime) of a task that has fired
RecomputedNextRun(task, current_time) == <<CronNext(task.schedule, current_time)>>

\* the `for task_id, task in self.scheduled_tasks.items()` loop from the k-th task on:
\* the tasks, the alert_history table and what has been published when the loop ends
\* or an exception ends it
RECURSIVE process_from(_, _, _, _, _)
process_from(tasks, history, pub, k, current_time) ==
    IF k > Len(tasks) THEN [tasks |-> tasks, history |-> history, published |-> pub]
    ELSE IF ~tasks[k].enabled \/ tasks[k].next_run = None
    THEN process_from(tasks, history, pub, k + 1, current_time)
    ELSE IF current_time >= tasks[k].next_run[1]
    THEN LET h == execute_action(history, tasks[k].action, None)
             p == execute_action_published(pub, tasks[k].action)
             ts == [tasks EXCEPT ![k].last_run = <<current_time>>,
                                 ![k].run_count = tasks[k].run_count + 1,
                                 ![k].next_run =
                                     RecomputedNextRun(tasks[k], current_time)]
         IN  IF StorageConnectRaises
             THEN [tasks |-> ts, history |-> h, published |-> p]
             ELSE process_from(ts, h, p, k + 1, current_time)
    ELSE process_from(tasks, history, pub, k + 1, current_time)

\* one process_scheduled_tasks() call of the loop, then `await asyncio.sleep(60)` begins
process_scheduled_tasks ==
    /\ sched_pc = "pass"
    /\ LET r == process_from(scheduled_tasks, alert_history, published, 1, now)
       IN  /\ scheduled_tasks' = r.tasks
           /\ alert_history' = r.history
           /\ published' = r.published
    /\ sched_pc' = "sleeping"
    /\ UNCHANGED <<now, device_data, alerts, automation_engine, rules, running, evals,
                   callback, submitted, msg_log, call_log>>
    /\ UNCHANGED <<connected, alert_callback, notifications, startupVars, threadVars>>

\* start_engine up to the first pass of its loop
start_engine ==
    /\ sched_pc = "not_started"
    /\ running' = TRUE
    /\ sched_pc' = "pass"
    /\ UNCHANGED <<now, device_data, alerts, automation_engine, rules, scheduled_tasks,
                   evals, alert_history, callback, submitted, msg_log, call_log>>
    /\ UNCHANGED <<netVars, startupVars, threadVars>>

\* mutant: the loop is `while True`
sleep_returns_IgnoresFlag(late) ==
    /\ sched_pc = "sleeping"
    /\ now' = now + SLEEP_SECONDS + late
    /\ sched_pc' = "pass"
    /\ UNCHANGED <<device_data, alerts, automation_engine, rules, scheduled_tasks,
                   running, evals, alert_history, callback, submitted, msg_log,
                   call_log>>
    /\ UNCHANGED <<netVars, startupVars, threadVars>>

\* asyncio.sleep(60) returns, `late` seconds late, and `while self.running` is tested
sleep_returns(late) ==
    /\ sched_pc = "sleeping"
    /\ now' = now + SLEEP_SECONDS + late
    /\ sched_pc' = IF running THEN "pass" ELSE "exited"
    /\ UNCHANGED <<device_data, alerts, automation_engine, rules, scheduled_tasks,
                   running, evals, alert_history, callback, submitted, msg_log,
                   call_log>>
    /\ UNCHANGED <<netVars, startupVars, threadVars>>

stop_engine ==
    /\ running' = FALSE
    /\ stop_called' = TRUE
    /\ UNCHANGED <<netVars, db_tasks, threadVars>>
    /\ UNCHANGED <<now, device_data, alerts, automation_engine, rules, scheduled_tasks,
                   sched_pc, evals, alert_history, callback, submitted, msg_log,
                   call_log>>

\* TelegramIoTBot.run's finally block: stop_engine() and automation_task.cancel(); the
\* task is not started yet or is suspended in asyncio.sleep, and never runs again
shutdown ==
    /\ running' = FALSE
    /\ stop_called' = TRUE
    /\ sched_pc' = "cancelled"
    /\ UNCHANGED <<now, device_data, alerts, automation_engine, rules, scheduled_tasks,
                   evals, alert_history, callback, submitted, msg_log, call_log>>
    /\ UNCHANGED <<netVars, db_tasks, threadVars>>

-----------------------------------------------------------------------------
(* The handlers and get_online_devices(), statement by statement.  _on_message  *)
(* runs on the thread of client.loop_start() (client.py:63), the bot's reads on *)
(* the main thread; no lock is taken, so the other thread can run between any   *)
(* two statements.                                                              *)

HandlerIdle == [pc |-> "idle", device |-> <<>>, data |-> EmptyDict]
ReaderIdle == [pc |-> "idle", size |-> 0, visited |-> {}, result |-> {}]

\* _handle_device_data up to `self.device_data[device_id]['online'] = True`
\* (client.py:175-196): the record and its sensor_data list exist afterwards
data_begin(topic, raw) ==
    LET data == JsonLoads(raw)
        parts == StrSplit(topic, "/")
        device_id == TopicDeviceId(parts)
        dd1 == IF device_id \notin DOMAIN device_data
               THEN DictSet(device_data, device_id, EmptyDict)
               ELSE device_data
        rec1 == IF "sensor_data" \notin DOMAIN dd1[device_id]
                THEN DictSet(dd1[device_id], "sensor_data", <<>>)
                ELSE dd1[device_id]
        data2 == IF "timestamp" \notin DOMAIN data.obj
                 THEN DictSet(data.obj, "timestamp", IsoFormat(now))
                 ELSE data.obj
    IN  /\ handler.pc = "idle"
        /\ Decodes(raw) /\ data.ok /\ data.isdict
        /\ Route(topic) = "data" /\ Len(parts) >= 3
        /\ device_data' = DictSet(dd1, device_id, DictSet(rec1, "online", TRUE))
        /\ handler' = [pc |-> "stamp", device |-> device_id, data |-> data2]
        /\ UNCHANGED <<now, alerts, automation_engine, evals, callback, call_log,
                       reader>>
        /\ UNCHANGED <<rules, scheduled_tasks, running, sched_pc, alert_history>>
        /\ UNCHANGED <<netVars, startupVars>>

\* `self.device_data[device_id]['last_seen'] = server_time` (client.py:197)
data_stamp ==
    /\ handler.pc = "stamp"
    /\ device_data' = DictSet(device_data, handler.device,
                              DictSet(device_data[handler.device], "last_seen",
                                      IsoFormat(now)))
    /\ handler' = [handler EXCEPT !.pc = "append"]
    /\ UNCHANGED <<now, alerts, automation_engine, callback, reader>>
    /\ UNCHANGED <<engineVars, historyVars, netVars, startupVars>>

\* `self.device_data[device_id]['sensor_data'].append(data)` (client.py:200)
data_append ==
    /\ handler.pc = "append"
    /\ device_data' =
           DictSet(device_data, handler.device,
                   DictSet(device_data[handler.device], "sensor_data",
                           Append(device_data[handler.device]["sensor_data"],
                                  handler.data)))
    /\ handler' = [handler EXCEPT !.pc = "cut"]
    /\ UNCHANGED <<now, alerts, automation_engine, callback, reader>>
    /\ UNCHANGED <<engineVars, historyVars, netVars, startupVars>>

\* the cut to the last 100 readings and the rest of the handler (client.py:203-213)
data_cut ==
    LET lst == device_data[handler.device]["sensor_data"] IN
    /\ handler.pc = "cut"
    /\ device_data' =
           DictSet(device_data, handler.device,
                   DictSet(device_data[handler.device], "sensor_data",
                           IF Len(lst) > SENSOR_DATA_KEEP
                           THEN LastN(lst, SENSOR_DATA_KEEP) ELSE lst))
    /\ evals' = evaluate_automation_rules_async(handler.device, handler.data)
    /\ callback' = "returned"
    /\ handler' = HandlerIdle
    /\ UNCHANGED <<now, alerts, automation_engine, reader>>
    /\ UNCHANGED <<rules, scheduled_tasks, running, sched_pc, alert_history>>
    /\ UNCHANGED <<historyVars, netVars, startupVars>>

\* _handle_device_status up to `self.device_data[device_id] = {}` (client.py:151-156)
status_begin(topic, raw) ==
    LET data == JsonLoads(raw)
        parts == StrSplit(topic, "/")
        device_id == TopicDeviceId(parts)
    IN  /\ handler.pc = "idle"
        /\ Decodes(raw) /\ data.ok /\ data.isdict
        /\ Route(topic) = "status" /\ Len(parts) >= 3
        /\ device_data' = IF device_id \notin DOMAIN device_data
                          THEN DictSet(device_data, device_id, EmptyDict)
                          ELSE device_data
        /\ handler' = [pc |-> "update", device |-> device_id, data |-> data.obj]
        /\ UNCHANGED <<now, alerts, automation_engine, callback, call_log, reader>>
        /\ UNCHANGED <<engineVars, netVars, startupVars>>

\* `self.device_data[device_id].update({...})` and the rest (client.py:158-170)
status_update ==
    LET rec1 == DictSet(device_data[handler.device], "status", handler.data)
        rec2 == DictSet(rec1, "last_seen", IsoFormat(now))
    IN  /\ handler.pc = "update"
        /\ device_data' = DictSet(device_data, handler.device,
                                  DictSet(rec2, "online", TRUE))
        /\ callback' = "returned"
        /\ handler' = HandlerIdle
        /\ UNCHANGED <<now, alerts, automation_engine, reader>>
        /\ UNCHANGED <<engineVars, historyVars, netVars, startupVars>>

\* get_online_devices(): `online_devices = {}` and the iterator over
\* self.device_data.items() is made (client.py:342-344)
online_begin ==
    /\ reader.pc # "iter"
    /\ reader' = [pc |-> "iter", size |-> Cardinality(DOMAIN device_data),
                  visited |-> {}, result |-> {}]
    /\ UNCHANGED <<now, device_data, alerts, automation_engine, callback, handler>>
    /\ UNCHANGED <<engineVars, historyVars, netVars, startupVars>>

\* one turn of the for loop: the dict iterator raises RuntimeError when the dict has
\* changed size since the iterator was made, ends the loop when every key was
\* visited, and otherwise the body runs is_device_online on the next key
online_next ==
    /\ reader.pc = "iter"
    /\ IF Cardinality(DOMAIN device_data) # reader.size
       THEN /\ reader' = [reader EXCEPT !.pc = "raised"]
            /\ UNCHANGED device_data
       ELSE IF reader.visited = DOMAIN device_data
       THEN /\ reader' = [reader EXCEPT !.pc = "returned"]
            /\ UNCHANGED device_data
       ELSE \E d \in DOMAIN device_data \ reader.visited :
                /\ device_data' = OnlineWritten(device_data, d)
                /\ reader' = [reader EXCEPT
                                 !.visited = reader.visited \cup {d},
                                 !.result = IF IsOnlineResult(d)
                                            THEN reader.result \cup {d}
                                            ELSE reader.result]
    /\ UNCHANGED <<now, alerts, automation_engine, callback, handler>>
    /\ UNCHANGED <<engineVars, historyVars, netVars, startupVars>>

-----------------------------------------------------------------------------
(* State after SimpleMQTTClient(config), DataStorage() and AutomationEngine(...):  *)
(* the engine's two _load_*_from_db calls fail (see StorageConnect) and leave both *)
(* dicts empty.  The database file is whatever was on disk.                        *)

\* a row of the scheduled_tasks table (task_id, schedule, action_json, enabled,
\* last_run, next_run, run_count)
PersistedTask(task_id, schedule, next_run) ==
    [task_id |-> task_id, schedule |-> schedule,
     action |-> [type |-> "log_event", level |-> "", message |-> <<"scheduled">>],
     enabled |-> TRUE, last_run |-> None, next_run |-> next_run, run_count |-> 0]

PersistedTables ==
    {<<>>, <<PersistedTask("t1", "* * * * *", <<0>>)>>,
     <<PersistedTask("t1", "* * * * *", None)>>}

\* _load_scheduled_tasks_from_db: connecting raises and the except leaves the dict
\* empty; otherwise every row becomes a ScheduledTask with the row's own next_run
load_scheduled_tasks_from_db(rows) ==
    IF StorageConnectRaises THEN <<>> ELSE rows

Init ==
    /\ now = 0
    /\ device_data = EmptyDict
    /\ alerts = <<>>
    /\ automation_engine \in BOOLEAN
    /\ rules = <<>>
    /\ db_tasks \in PersistedTables
    /\ scheduled_tasks = load_scheduled_tasks_from_db(db_tasks)
    /\ running = FALSE
    /\ sched_pc = "not_started"
    /\ evals = <<>>
    /\ alert_history = <<>>
    /\ callback = ""
    /\ submitted = [d \in DeviceIds |-> <<>>]
    /\ msg_log = [n |-> 0, topic |-> <<>>, kind |-> ""]
    /\ call_log = [n |-> 0, flip |-> FALSE, op |-> "", arg |-> <<>>, ret |-> FALSE]
    /\ connected = FALSE
    /\ published = <<>>
    /\ alert_callback = FALSE
    /\ notifications = <<>>
    /\ stop_called = FALSE
    /\ handler = HandlerIdle
    /\ reader = ReaderIdle

-----------------------------------------------------------------------------
(* Router specification: any payload on any subscribed topic, and the clock *)

Deliver ==
    /\ msg_log.n < MaxMessages
    /\ \E topic \in Topics, raw \in RawPayloads :
            on_message(topic, raw) /\ Published(topic, raw)

Tick == now + 1 <= MaxNow /\ Advance(1)

Next == Deliver \/ Tick

\* the bot's wiring: set_automation_engine was called (main.py:40)
InitWired == Init /\ automation_engine /\ db_tasks = <<>>

Spec == InitWired /\ [][Next]_vars

-----------------------------------------------------------------------------
(* Presence specification: status and sensor events, reads, and a clock that *)
(* can pass the timeout                                                      *)

ClockSteps == {10, 11}
QueryIds == DeviceIds \cup {<<"z">>}
PresenceTopics == {StatusTopic(<<"a">>), DataTopic(<<"b">>)}
PresencePayloads == {StatusPayload, StampedReading(29, 0), NotJson}

DeliverPresence ==
    /\ msg_log.n < MaxMessages
    /\ \E topic \in PresenceTopics, raw \in PresencePayloads :
            on_message(topic, raw) /\ Published(topic, raw)

TickPresence == \E dt \in ClockSteps : now + dt <= MaxPresenceNow /\ Advance(dt)

CheckOnline == \E d \in QueryIds : is_device_online(d)

NextPresence == DeliverPresence \/ TickPresence \/ CheckOnline \/ get_online_devices

InitPresence == Init /\ ~automation_engine /\ db_tasks = <<>>

SpecPresence == InitPresence /\ [][NextPresence]_vars

-----------------------------------------------------------------------------
(* History specification: each device publishes numbered readings, past the *)
(* capacity of sensor_data                                                  *)

NumberedReading(d) == FlatReading(Len(submitted[d]) + 1)

DeliverReading ==
    \E d \in DeviceIds :
        /\ Len(submitted[d]) < MaxReadings
        /\ on_message(DataTopic(d), NumberedReading(d))
        /\ Published(DataTopic(d), NumberedReading(d))

NextHistory == DeliverReading

InitHistory == Init /\ ~automation_engine /\ db_tasks = <<>>

SpecHistory == InitHistory /\ [][NextHistory]_vars

-----------------------------------------------------------------------------
(* Bridge specification: rules are set up, then sensor events of the devices *)
(* arrive and each starts its own evaluation thread                          *)

BridgeThresholds == {20, 30}
BridgePayloads == {FlatReading(31), FlatReading(29)}

SetUpRule ==
    /\ msg_log.n = 0
    /\ call_log.n < MaxRules
    /\ \E t \in BridgeThresholds :
           create_threshold_rule(<<"a">>, "temperature", t, ">", "WARNING")

DeliverSensor ==
    /\ Len(evals) < MaxEvals
    /\ \E d \in DeviceIds, raw \in BridgePayloads :
           on_message(DataTopic(d), raw) /\ Published(DataTopic(d), raw)

EvalBegin == \E i \in 1..Len(evals) : eval_begin(i)
EvalRule == \E i \in 1..Len(evals) : eval_rule(i)
EvalStore == \E i \in 1..Len(evals) : eval_store(i)

NextBridge == SetUpRule \/ DeliverSensor \/ EvalBegin \/ EvalRule \/ EvalStore

SpecBridge == InitWired /\ [][NextBridge]_vars

\* every started thread is scheduled by the operating system until it ends
SpecBridgeFair ==
    SpecBridge /\ WF_vars(EvalBegin) /\ WF_vars(EvalRule) /\ WF_vars(EvalStore)

-----------------------------------------------------------------------------
(* Engine specification: threshold rules are created and evaluate_rules is *)
(* awaited, one call at a time, on the event loop                          *)

Operators == {">", "<", ">=", "<=", "=="}
EvalReadings == {[temperature |-> JNum(29)], [temperature |-> JNum(30)],
                 [temperature |-> JNum(31)], [humidity |-> JNum(31)]}

CreateRule ==
    /\ NoneRunning
    /\ call_log.n < MaxRules
    /\ \E d \in DeviceIds, op \in Operators :
           create_threshold_rule(d, "temperature", 30, op, "WARNING")

CallEvaluate ==
    /\ NoneRunning
    /\ Len(evals) < MaxCalls
    /\ \E d \in DeviceIds, r \in EvalReadings : evaluate_rules(d, r)

NextEngine == CreateRule \/ CallEvaluate \/ EvalBegin \/ EvalRule \/ EvalStore

SpecEngine == InitWired /\ [][NextEngine]_vars

\* Alerts: devices publish numbered alerts on the alerts channel, of every level and
\* without a level; main registers the notification callback at some point after
\* the client has connected.
AlertLevels == <<"INFO", "WARNING", "ERROR", "CRITICAL">>

NumberedAlert(n) ==
    IF n % 5 = 0
    THEN JsonObject([message |-> n, device_id |-> <<"a">>])
    ELSE JsonObject([message |-> n, device_id |-> <<"a">>, level |-> AlertLevels[n % 5]])

DeliverAlert ==
    /\ msg_log.n < MaxAlerts
    /\ on_message(AlertsTopic, NumberedAlert(msg_log.n + 1))
    /\ Published(AlertsTopic, NumberedAlert(msg_log.n + 1))

RegisterCallback == ~alert_callback /\ set_alert_callback

NextAlerts == DeliverAlert \/ RegisterCallback

SpecAlerts == InitWired /\ [][NextAlerts]_vars

\* Readers of the alert buffer: the bot's views ask for 5 or 10 alerts; 0 and 1 are
\* the smallest limits a caller can pass
Limits == {0, 1, 5, 10}

ReadRecentAlerts == \E limit \in Limits : get_recent_alerts(limit)

NextRecent == DeliverAlert \/ ReadRecentAlerts

SpecRecent == InitWired /\ [][NextRecent]_vars

\* Commands: the broker connection comes and goes, device a reports its status, the
\* clock moves past the presence timeout, and commands are sent by the three callers:
\* a handler calling publish_device_command, IoTCommands.control_device, and a rule
\* with a control_device action.
CommandClockSteps == {15, 16}
Commands == {"ping"}

Connect == ~connected /\ on_connect

Disconnect == connected /\ on_disconnect

DeliverStatus ==
    /\ connected
    /\ msg_log.n < MaxMessages
    /\ on_message(StatusTopic(<<"a">>), StatusPayload)
    /\ Published(StatusTopic(<<"a">>), StatusPayload)

TickCommand == \E dt \in CommandClockSteps : now + dt <= MaxPresenceNow /\ Advance(dt)

PublishCommand ==
    /\ Len(published) < MaxPublished
    /\ \E d \in DeviceIds, c \in Commands : publish_command_call(d, c)

ControlDevice ==
    /\ Len(published) < MaxPublished
    /\ \E d \in DeviceIds, c \in Commands : control_device(d, c)

\* add_rule(rule_id, name, description, condition, action) with a control_device action
AddControlRule ==
    /\ rules = <<>>
    /\ \E target \in DeviceIds :
           /\ rules' = add_rule(<<"control", target>>,
                                [type |-> "sensor_threshold", device_id |-> <<"a">>,
                                 sensor_type |-> "temperature", operator |-> ">",
                                 threshold |-> 30],
                                [type |-> "control_device", device_id |-> target,
                                 command |-> "ping"], 1).rules
           /\ UNCHANGED <<now, device_data, alerts, automation_engine, scheduled_tasks,
                          running, sched_pc, evals, alert_history, callback, submitted,
                          msg_log, call_log, netVars, startupVars, threadVars>>

EvaluateReading ==
    /\ NoneRunning
    /\ Len(evals) < MaxCalls
    /\ evaluate_rules(<<"a">>, [temperature |-> JNum(31)])

NextCommand ==
    \/ Connect \/ Disconnect \/ DeliverStatus \/ TickCommand \/ PublishCommand
    \/ ControlDevice \/ AddControlRule \/ EvaluateReading
    \/ EvalBegin \/ EvalRule \/ EvalStore

SpecCommand == InitWired /\ [][NextCommand]_vars

\* Sensor events in the shape the test device publishes, {sensor_type, value}, and
\* one event keyed by the sensor type, against threshold rules of every operator on
\* the same sensor type
ShapedValues == {29, 30, 31}

ShapedPayloads == {ShapedReading(v) : v \in ShapedValues} \cup {FlatReading(31)}

SetUpOperatorRule ==
    /\ msg_log.n = 0
    /\ call_log.n < MaxRules
    /\ \E op \in Operators :
           create_threshold_rule(<<"a">>, "temperature", 30, op, "WARNING")

DeliverShaped ==
    /\ Len(evals) < MaxEvals
    /\ \E d \in DeviceIds, raw \in ShapedPayloads :
           on_message(DataTopic(d), raw) /\ Published(DataTopic(d), raw)

NextShaped == SetUpOperatorRule \/ DeliverShaped \/ EvalBegin \/ EvalRule \/ EvalStore

SpecShaped == InitWired /\ [][NextShaped]_vars

\* Rules of every kind of condition: device_condition rules that control a device,
\* threshold rules (also with an operator the engine does not know) and a rule whose
\* condition type the engine does not know, all on device a; rules are added between
\* evaluations, and a reading of device a, or of device b, is evaluated while the
\* broker is connected or not.
TriggerConditions ==
    {[temperature |-> [min |-> 30, max |-> 31]],
     [temperature |-> [min |-> 31]],
     [state |-> JStr("on")],
     [temperature |-> [max |-> 30], state |-> JStr("on")],
     [temperature |-> EmptyDict]}

ThresholdOperators == {">", "!="}

UnknownCondition == [type |-> "time_window", device_id |-> <<"a">>]

ControlReadings ==
    {[temperature |-> JNum(29)], [temperature |-> JNum(30)], [temperature |-> JNum(31)],
     [temperature |-> JNum(32)], [temperature |-> JStr("hot")],
     [humidity |-> JNum(31)], [state |-> JStr("off")],
     [temperature |-> JNum(30), state |-> JStr("on")]}

CreateControlRule ==
    /\ NoneRunning
    /\ call_log.n < MaxRules
    /\ \E c \in TriggerConditions :
           create_device_control_rule(<<"a">>, c, <<"b">>, [command |-> "on"])

CreateThresholdRule ==
    /\ NoneRunning
    /\ call_log.n < MaxRules
    /\ \E op \in ThresholdOperators :
           create_threshold_rule(<<"a">>, "temperature", 30, op, "WARNING")

\* add_rule(rule_id, name, description, condition, action) by a caller of the engine
AddUnknownRule ==
    /\ NoneRunning
    /\ call_log.n < MaxRules
    /\ LET r == add_rule(<<"custom">>, UnknownCondition,
                         [type |-> "control_device", device_id |-> <<"b">>,
                          command |-> "on"], call_log.n + 1)
       IN  /\ rules' = r.rules
           /\ call_log' = [n |-> call_log.n + 1, flip |-> ~call_log.flip,
                           op |-> "add_rule", arg |-> <<"custom">>, ret |-> r.ret]
    /\ UNCHANGED <<now, device_data, alerts, automation_engine, scheduled_tasks,
                   running, sched_pc, evals, alert_history, callback, submitted,
                   msg_log, netVars, startupVars, threadVars>>

EvaluateControl ==
    /\ NoneRunning
    /\ Len(evals) < MaxCalls
    /\ \/ \E r \in ControlReadings : evaluate_rules(<<"a">>, r)
       \/ evaluate_rules(<<"b">>, [temperature |-> JNum(31)])

NextControl ==
    \/ Connect \/ Disconnect \/ CreateControlRule \/ CreateThresholdRule
    \/ AddUnknownRule \/ EvaluateControl \/ EvalBegin \/ EvalRule \/ EvalStore

SpecControl == InitWired /\ [][NextControl]_vars

\* The scheduler: tasks are added at any time, the engine is started once and stopped
\* at any time, and the loop's sleep ends on time or a second late.
TaskIds == {"t1", "t2"}
Schedules == {"* * * * *", "*/2 * * * *", "not a cron expression"}
TaskActions == {[type |-> "send_alert", level |-> "INFO", message |-> <<"scheduled">>],
                [type |-> "log_event", level |-> "", message |-> <<"scheduled">>]}
Lateness == {0, 1}

\* (the loop does not yield between its test of self.running and the end of the pass,
\* so no other call of the event loop runs while sched_pc = "pass")
AddTask ==
    /\ sched_pc # "pass"
    /\ call_log.n < MaxTasks
    /\ \E id \in TaskIds, sch \in Schedules, a \in TaskActions :
           add_scheduled_task(id, sch, a)

StartEngine == start_engine

Pass == process_scheduled_tasks

SleepReturns ==
    \E late \in Lateness :
        /\ now + SLEEP_SECONDS + late <= MaxSchedNow
        /\ sleep_returns(late)

StopEngine == sched_pc # "pass" /\ running /\ stop_engine

\* main's finally block, on the event loop: stop_engine(), then automation_task.cancel()
Shutdown == sched_pc \in {"not_started", "sleeping"} /\ ~stop_called /\ shutdown

NextSched == AddTask \/ StartEngine \/ Pass \/ SleepReturns \/ StopEngine \/ Shutdown

\* (the database file on disk may hold rows of scheduled tasks)
InitSched == Init /\ automation_engine

SpecSched == InitSched /\ [][NextSched]_vars

-----------------------------------------------------------------------------
(* Threads specification: device a publishes readings, device b its first      *)
(* status event; the handlers run statement by statement on the network thread *)
(* while the main thread runs get_online_devices() and the clock passes the    *)
(* presence timeout                                                            *)

ThreadClockSteps == {31}

DataArrives ==
    /\ Len(submitted[<<"a">>]) < MaxMessages
    /\ data_begin(DataTopic(<<"a">>), NumberedReading(<<"a">>))
    /\ Published(DataTopic(<<"a">>), NumberedReading(<<"a">>))

StatusArrives ==
    /\ <<"b">> \notin DOMAIN device_data
    /\ status_begin(StatusTopic(<<"b">>), StatusPayload)
    /\ Published(StatusTopic(<<"b">>), StatusPayload)

\* (one get_online_devices() call is over long before the clock moves by seconds)
TickThreads ==
    /\ reader.pc # "iter"
    /\ \E dt \in ThreadClockSteps : now + dt <= MaxPresenceNow /\ Advance(dt)

NextThreads ==
    \/ DataArrives \/ data_stamp \/ data_append \/ data_cut
    \/ StatusArrives \/ status_update
    \/ online_begin \/ online_next
    \/ TickThreads

SpecThreads == InitPresence /\ [][NextThreads]_vars

\* History, statement by statement: device a publishes numbered readings past the
\* capacity of sensor_data, and each statement of the handler is a step another
\* thread can look in after
ReadingArrives ==
    /\ Len(submitted[<<"a">>]) < MaxReadings
    /\ data_begin(DataTopic(<<"a">>), NumberedReading(<<"a">>))
    /\ Published(DataTopic(<<"a">>), NumberedReading(<<"a">>))

NextHistorySteps == ReadingArrives \/ data_stamp \/ data_append \/ data_cut

SpecHistorySteps == InitHistory /\ [][NextHistorySteps]_vars

-----------------------------------------------------------------------------
(* Properties *)

Min(a, b) == IF a <= b THEN a ELSE b

\* get_device_data(device_id)['sensor_data'], empty when the record or the key is absent
SensorData(d) ==
    IF d \in DOMAIN device_data /\ "sensor_data" \in DOMAIN device_data[d]
    THEN device_data[d]["sensor_data"] ELSE <<>>

SensorDataNext(d) ==
    IF d \in DOMAIN device_data' /\ "sensor_data" \in DOMAIN device_data'[d]
    THEN device_data'[d]["sensor_data"] ELSE <<>>

\* a stored reading is the published one (the router may add a timestamp key)
Carries(stored, sent) == \A k \in DOMAIN sent : k \in DOMAIN stored /\ stored[k] = sent[k]

\* a delivery to _on_message happens in this step
Delivery == msg_log'.n = msg_log.n + 1

\* C1: once an event is handled, every device's sensor_data holds exactly the most
\* recent min(n, 100) of the n readings that device has published, in arrival order.
C1_HistoryIsRecentWindow ==
    \A d \in DeviceIds :
        LET h == SensorData(d)
            n == Len(submitted[d])
            m == Min(n, 100)
        IN  /\ Len(h) = m
            /\ \A i \in 1..m : Carries(h[i], submitted[d][n - m + i])

\* C1 witness: a device has published more than 100 readings and the oldest are gone
C1_Evicted ==
    \E d \in DeviceIds :
        /\ Len(submitted[d]) > 100
        /\ Len(SensorData(d)) = 100
        /\ Carries(SensorData(d)[1], submitted[d][Len(submitted[d]) - 99])

\* C5: is_device_online(d) returns TRUE iff d has a last_seen and now - last_seen <= 30;
\* get_online_devices() returns exactly the devices for which that holds.  A device
\* without a record (it never sent an event) is reported offline.
C5_SeenWithinTtl(d) ==
    /\ d \in DOMAIN device_data
    /\ "last_seen" \in DOMAIN device_data[d]
    /\ now - device_data[d]["last_seen"].n <= 30

C5_OnlineIffWithinTtl ==
    [][(call_log'.flip # call_log.flip) =>
         /\ call_log'.op = "is_device_online" =>
                call_log'.ret = C5_SeenWithinTtl(call_log'.arg)
         /\ call_log'.op = "get_online_devices" =>
                call_log'.ret = {d \in DOMAIN device_data : C5_SeenWithinTtl(d)}]_vars

\* C5 witness: a device that sent an event is reported offline once the clock has
\* passed last_seen + 30, with the last_seen of that event still in place
C5_FlippedOffline ==
    /\ call_log.op = "is_device_online"
    /\ call_log.ret = FALSE
    /\ call_log.arg \in DOMAIN device_data
    /\ "last_seen" \in DOMAIN device_data[call_log.arg]
    /\ now - device_data[call_log.arg]["last_seen"].n = 31

\* C8: a payload that is not parseable JSON, delivered on a device data topic, is
\* dropped: the callback ends by returning or logging, device_data (records, sensor_data,
\* last_seen) is unchanged and no rule evaluation is dispatched.
C8_UnparseableDropped ==
    [][(/\ Delivery
        /\ msg_log'.kind \in {"badutf8", "notjson"}
        /\ \E d \in DeviceIds : msg_log'.topic = DataTopic(d))
       => /\ device_data' = device_data
          /\ evals' = evals
          /\ callback' \in {"invalid_json", "error_logged"}]_vars

\* C8 witness: such a payload was delivered on a data topic
C8_GarbageOnDataTopic ==
    /\ msg_log.kind \in {"badutf8", "notjson"}
    /\ \E d \in DeviceIds : msg_log.topic = DataTopic(d)
    /\ callback = "invalid_json"

\* C9: with the sensor events of two devices interleaved in any order, an event of one
\* device leaves every other device's record as it was, and afterwards each device's
\* sensor_data holds that device's own readings, in the order it published them (the
\* last min(n, 100) of them).
C9_DevicesIndependent ==
    [][Delivery =>
         /\ \A d \in DeviceIds :
              msg_log'.topic \in {StatusTopic(d), DataTopic(d)} =>
                  \A e \in ((DOMAIN device_data) \cup (DOMAIN device_data')) \ {d} :
                      /\ e \in DOMAIN device_data
                      /\ e \in DOMAIN device_data'
                      /\ device_data'[e] = device_data[e]
         /\ \A d \in DeviceIds :
              LET h == SensorDataNext(d)
                  n == Len(submitted'[d])
              IN  /\ Len(h) = Min(n, 100)
                  /\ \A i \in 1..Len(h) : Carries(h[i], submitted'[d][n - Len(h) + i])]_vars

\* C9 witness: both devices have several readings stored, each its own
C9_Interleaved ==
    /\ \A d \in DeviceIds : Len(SensorData(d)) >= 2
    /\ Len(SensorData(<<"a">>)) + Len(SensorData(<<"b">>)) = msg_log.n
    /\ SensorData(<<"a">>)[2]["temperature"] = JNum(2)
    /\ SensorData(<<"b">>)[1]["temperature"] = JNum(1)

\* C10 as claimed: a delivery on a topic that is neither a device's status topic, nor a
\* device's data topic, nor the alerts channel changes no device record, alert, rule
\* or task.
C10_SystemStatusOnlyLogged ==
    [][(/\ Delivery
        /\ msg_log'.topic \notin {StatusTopic(d) : d \in DeviceIds}
        /\ msg_log'.topic \notin {DataTopic(d) : d \in DeviceIds}
        /\ msg_log'.topic # AlertsTopic)
       => /\ device_data' = device_data
          /\ alerts' = alerts
          /\ rules' = rules
          /\ scheduled_tasks' = scheduled_tasks]_vars

Started(e) == e.pc # "start"
Finished(e) == e.pc = "done"

\* C2 as claimed: of two evaluations dispatched for sensor events of one device, the
\* later one has not started unless the earlier one has, and has not finished unless
\* the earlier one has.
C2_PerDeviceFifo ==
    \A i, j \in 1..Len(evals) :
        (i < j /\ evals[i].device = evals[j].device) =>
            /\ Started(evals[j]) => Started(evals[i])
            /\ Finished(evals[j]) => Finished(evals[i])

\* the reading satisfies the threshold condition, said with the arithmetic relations
Qualifies(condition, device_id, reading) ==
    /\ condition.device_id = device_id
    /\ condition.sensor_type \in DOMAIN reading
    /\ LET v == reading[condition.sensor_type].n
           t == condition.threshold
       IN  \/ condition.operator = ">" /\ v > t
           \/ condition.operator = "<" /\ v < t
           \/ condition.operator = ">=" /\ v >= t
           \/ condition.operator = "<=" /\ v <= t
           \/ condition.operator = "==" /\ v = t

\* the number of readings a rule's device has published that satisfy the rule
QualifyingEvents(rule) ==
    LET sent == submitted[rule.condition.device_id]
    IN  Cardinality({i \in 1..Len(sent) :
                        Qualifies(rule.condition, rule.condition.device_id, sent[i])})

\* C3 as claimed: once every evaluation dispatched for the ingested sensor events has
\* completed, each rule's trigger_count has grown by the number of qualifying events
\* (the rules exist before the first event and start at 0).
C3_CountsEveryQualifyingEvent ==
    (Len(evals) = msg_log.n /\ NoneRunning) =>
        \A k \in 1..Len(rules) : rules[k].trigger_count = QualifyingEvents(rules[k])

\* C4: with exactly one rule, an enabled sensor_threshold rule with a send_alert action,
\* one evaluate_rules(d', reading) call stores exactly one alert (the rule's level and
\* message) and adds exactly 1 to trigger_count if d' is the rule's device, the sensor
\* type is a key of the reading and the value satisfies the operator; otherwise it
\* stores no alert and leaves trigger_count and last_triggered as they were.
C4_SingleRuleEvaluation ==
    [][\A i \in 1..Len(evals) :
          (/\ evals[i].pc # "done"
           /\ evals'[i].pc = "done"
           /\ Len(evals[i].pre) = 1
           /\ evals[i].pre[1].enabled)
          => LET before == evals[i].pre[1]
                 after == rules'[1]
                 q == Qualifies(before.condition, evals[i].device, evals[i].reading)
             IN  IF q
                 THEN /\ after.trigger_count = before.trigger_count + 1
                      /\ Len(alert_history') = evals[i].pre_alerts + 1
                      /\ alert_history'[Len(alert_history')].level = before.action.level
                      /\ alert_history'[Len(alert_history')].message
                             = before.action.message
                      /\ evals'[i].fired = 1
                 ELSE /\ after.trigger_count = before.trigger_count
                      /\ after.last_triggered = before.last_triggered
                      /\ Len(alert_history') = evals[i].pre_alerts
                      /\ evals'[i].fired = 0]_vars

\* C4 witness: temperature > 30 on device a; evaluate(a, {temperature: 31}) has ended
\* with one alert and trigger_count 1
C4_TriggeredOnce ==
    /\ Len(evals) = 1
    /\ evals[1].pc = "done"
    /\ evals[1].device = <<"a">>
    /\ evals[1].reading = [temperature |-> JNum(31)]
    /\ Len(evals[1].pre) = 1
    /\ evals[1].pre[1].condition.operator = ">"
    /\ evals[1].pre[1].condition.device_id = <<"a">>
    /\ rules[1].trigger_count = 1
    /\ Len(alert_history) = 1

\* C7: a create_threshold_rule call that repeats the (device_id, sensor_type, threshold,
\* operator) of the call before it returns the same rule_id, and leaves exactly one
\* rule with that id and as many rules as there were.
C7_RecreateOverwrites ==
    [][(/\ call_log'.n = call_log.n + 1
        /\ call_log'.op = "create_threshold_rule"
        /\ call_log.op = "create_threshold_rule"
        /\ call_log'.arg = call_log.arg)
       => /\ call_log'.ret = call_log.ret
          /\ Cardinality({k \in 1..Len(rules') : rules'[k].rule_id = call_log'.ret}) = 1
          /\ Len(rules') = Len(rules)]_vars

\* C7 witness: the second of two calls with identical arguments has replaced the rule
\* the first one made (an evaluation in between ran on the first one)
C7_CreatedTwice ==
    /\ call_log.n = 2
    /\ Len(rules) = 1
    /\ rules[1].oid = 2
    /\ \E i \in 1..Len(evals) :
           /\ evals[i].pc = "done"
           /\ Len(evals[i].pre) = 1
           /\ evals[i].pre[1].oid = 1
           /\ evals[i].pre[1].condition = rules[1].condition
           /\ evals[i].pre[1].rule_id = call_log.ret

Due(task, t) == task.enabled /\ task.next_run # None /\ t >= task.next_run[1]

\* C6 as claimed: a scheduler pass at time now fires every enabled task with
\* now >= next_run exactly once: its run_count grows by exactly 1, its last_run becomes
\* now and its next_run becomes a time strictly greater than now.
C6_PassFiresEveryDueTask ==
    [][(sched_pc = "pass" /\ sched_pc' = "sleeping")
       => \A k \in 1..Len(scheduled_tasks) :
              Due(scheduled_tasks[k], now)
              => /\ scheduled_tasks'[k].run_count = scheduled_tasks[k].run_count + 1
                 /\ scheduled_tasks'[k].last_run = <<now>>
                 /\ scheduled_tasks'[k].next_run[1] > now]_vars

\* the device has a record whose last_seen is within the presence timeout
KnownAndOnline(d) ==
    /\ d \in DOMAIN device_data
    /\ "last_seen" \in DOMAIN device_data[d]
    /\ now - device_data[d]["last_seen"].n <= 30

\* C11 as claimed: nothing is published on the control topic of a device that is
\* unknown (no record) or offline (now - last_seen > 30), whoever the caller is, and
\* a publish_device_command call for such a device fails.
C11_NoCommandToUnknownOrOffline ==
    [][/\ Len(published') > Len(published)
          => \E d \in DOMAIN device_data :
                 /\ published'[Len(published')].topic = ControlTopic(d)
                 /\ KnownAndOnline(d)
       /\ (call_log'.flip # call_log.flip /\ call_log'.op = "publish_device_command"
           /\ ~KnownAndOnline(call_log'.arg))
          => call_log'.ret = "raised"]_vars

\* C12: after any sequence of alert events the alerts list holds exactly the most
\* recent min(n, 50) alerts in arrival order, and an alert event leaves every alert
\* that stays in the list as it was.
C12_AlertBufferIsRecentWindow ==
    [][Delivery =>
         LET n == msg_log'.n
             m == Min(n, 50)
             shift == Len(alerts) + 1 - Len(alerts')
         IN  /\ Len(alerts') = m
             /\ \A i \in 1..m : alerts'[i].message = n - m + i
             /\ \A i \in 1..(Len(alerts') - 1) : alerts'[i] = alerts[i + shift]]_vars

\* C12 witness: more than 50 alerts have arrived and the oldest are gone
C12_AlertEvicted ==
    /\ msg_log.n > 50
    /\ Len(alerts) = 50
    /\ alerts[1].message = msg_log.n - 49
    /\ alerts[50].message = msg_log.n

\* C13 as claimed: every alert event the router accepts is pushed to the alerts list
\* and appended to the alert_history table, which has one more row afterwards.
C13_AlertPersisted ==
    [][(Delivery /\ msg_log'.topic = AlertsTopic /\ callback' = "returned")
       => /\ Len(alerts') >= 1
          /\ alerts'[Len(alerts')].message = msg_log'.n
          /\ Len(alert_history') = Len(alert_history) + 1]_vars

\* C14 as claimed: an alert produced by a rule's send_alert action is appended to the
\* alert_history table and also becomes the newest entry of the in-memory alerts
\* list (get_recent_alerts), with the rule's level and message.
C14_RuleAlertInBuffer ==
    [][Len(alert_history') > Len(alert_history)
       => /\ Len(alerts') = Len(alerts) + 1
          /\ alerts'[Len(alerts')].level = alert_history'[Len(alert_history')].level
          /\ alerts'[Len(alerts')].message
                 = alert_history'[Len(alert_history')].message]_vars

\* C15 as claimed: an accepted alert event is handed over for notification exactly when
\* its level is WARNING, ERROR or CRITICAL: then exactly one notification is queued,
\* after those queued before; for INFO or no level none is queued.
C15_NotifiedIffSevere ==
    [][(Delivery /\ msg_log'.topic = AlertsTopic /\ callback' = "returned")
       => LET alert == alerts'[Len(alerts')] IN
          IF alert.level \in {"WARNING", "ERROR", "CRITICAL"}
          THEN notifications' = Append(notifications, alert)
          ELSE notifications' = notifications]_vars

C18_TriggerCountNeverDecreases ==
    [][\A i \in 1..Len(rules) : \A j \in 1..Len(rules') :
           rules'[j].rule_id = rules[i].rule_id
               => rules'[j].trigger_count >= rules[i].trigger_count]_vars

\* C19 as claimed: the online value in the record a reader gets (get_device_data,
\* get_all_devices, and the command front-end, which reads the same record) equals
\* now - last_seen <= 30 at the moment of the read, whatever ran before.
C19_OnlineNeverStale ==
    \A d \in DOMAIN get_all_devices :
        LET rec == get_device_data(d)
        IN  "online" \in DOMAIN rec => rec["online"] = C5_SeenWithinTtl(d)

EvalsOf(d) == SelectSeq(evals, LAMBDA e : e.device = d)

\* C21: with an engine attached, the readings the router has appended to a device's
\* sensor_data are, one for one and in order, the readings of the evaluations
\* dispatched for that device (none missing, none twice); a dispatched evaluation is
\* never withdrawn or restarted; and every dispatched evaluation eventually runs to
\* its end.
C21_EveryAppendedReadingEvaluatedOnce ==
    /\ [](\A d \in DeviceIds :
             LET stored == SensorData(d)
                 runs == EvalsOf(d)
             IN  /\ Len(runs) = Len(stored)
                 /\ \A k \in 1..Len(runs) : runs[k].reading = stored[k])
    /\ [][\A i \in 1..Len(evals) :
             /\ Len(evals') >= Len(evals)
             /\ evals'[i].device = evals[i].device
             /\ evals'[i].reading = evals[i].reading
             /\ Started(evals[i]) => Started(evals'[i])
             /\ Finished(evals[i]) => Finished(evals'[i])]_vars
    /\ \A i \in 1..MaxEvals :
           (Len(evals) >= i) ~> (Len(evals) >= i /\ Finished(evals[i]))

\* C21 witness: two sensor events of device a were appended and the two evaluations
\* dispatched for them have ended
C21_BothEventsEvaluated ==
    /\ Len(SensorData(<<"a">>)) = 2
    /\ Len(EvalsOf(<<"a">>)) = 2
    /\ NoneRunning
    /\ msg_log.n = 2

\* the evaluations that have begun and not ended
InProgress == {i \in 1..Len(evals) : Started(evals[i]) /\ ~Finished(evals[i])}

\* C22 as claimed: at no time are two rule evaluations in progress, nor a rule
\* evaluation during a scheduler pass.
C22_OneExecutionContext ==
    /\ Cardinality(InProgress) <= 1
    /\ sched_pc = "pass" => InProgress = {}

\* the enabled rules a reading of a device satisfies
MatchingRules(rs, device_id, reading) ==
    {k \in 1..Len(rs) : rs[k].enabled /\ Qualifies(rs[k].condition, device_id, reading)}

\* C23 as claimed: the UPDATE of a matched rule's statistics always fails, and yet an
\* evaluation, when it ends, has triggered every enabled rule its reading satisfies,
\* each with last_triggered set.
C23_PersistFailureConfined ==
    [][\A i \in 1..Len(evals) :
          (evals[i].pc # "done" /\ evals'[i].pc = "done")
          => LET m == MatchingRules(rules', evals[i].device, evals[i].reading)
             IN  /\ evals'[i].fired = Cardinality(m)
                 /\ \A k \in m : rules'[k].last_triggered # None]_vars

\* C24 as claimed, in the bounded form a counterexample can show: a task that was
\* already due at the previous pass of the loop (one sleep earlier) and is still due
\* is executed by this pass, whatever happens to the other tasks.
C24_DueTaskNotPassedOverAgain ==
    [][(sched_pc = "pass" /\ sched_pc' = "sleeping")
       => \A k \in 1..Len(scheduled_tasks) :
              (\A late \in Lateness :
                   Due(scheduled_tasks[k], now - SLEEP_SECONDS - late))
              => scheduled_tasks'[k].run_count = scheduled_tasks[k].run_count + 1]_vars

\* C25 as claimed: a rule's last_triggered is written only in a step in which the
\* rule's action was executed successfully; for a control_device action that is a
\* step in which the command was published.
C25_StatsOnlyAfterSuccessfulAction ==
    [][\A k \in 1..Len(rules) :
          (/\ k <= Len(rules')
           /\ rules'[k].oid = rules[k].oid
           /\ rules'[k].last_triggered # rules[k].last_triggered
           /\ rules[k].action.type = "control_device")
          => Len(published') = Len(published) + 1]_vars

\* C26 as claimed: at any moment another thread can look, a device record has at most
\* 100 readings in sensor_data, and a record that only sensor events have written
\* does not carry a last_seen while the reading of the event that set it is not in
\* sensor_data (for the first event: last_seen present, sensor_data still empty).
C26_NoHalfUpdatedRecord ==
    \A d \in DOMAIN get_all_devices :
        LET rec == get_device_data(d)
        IN  /\ Len(SensorData(d)) <= 100
            /\ ("last_seen" \in DOMAIN rec /\ "status" \notin DOMAIN rec)
                   => Len(SensorData(d)) >= 1

\* C27 as claimed: a get_online_devices() call that runs while the router handles an
\* event never ends in an exception, and every device in the map it returns is
\* within the presence timeout.
C27_OnlineReadCompletes ==
    [][(reader.pc = "iter" /\ reader'.pc # "iter")
       => /\ reader'.pc = "returned"
          /\ \A d \in reader'.result : C5_SeenWithinTtl(d)]_vars

\* C28 as claimed: an is_device_online or get_online_devices call leaves device_data
\* as it was, and device_data changes only in a step that delivers an event.
C28_ReadsArePure ==
    [][/\ (/\ call_log'.flip # call_log.flip
           /\ call_log'.op \in {"is_device_online", "get_online_devices"})
          => device_data' = device_data
       /\ device_data' # device_data => Delivery]_vars

\* pairs of payloads that differ only in the timestamp field (its value, its presence)
TimestampVariants ==
    {<<StampedReading(29, 0), StampedReading(29, 5)>>,
     <<FlatReading(29), StampedReading(29, 5)>>,
     <<JsonObject([online |-> TRUE, timestamp |-> IsoFormat(0)]), StatusPayload>>}

\* C29: handled in the same state and at the same server time, two status events,
\* or two sensor events, that differ only in the payload's timestamp leave the same
\* last_seen and the same online flag in the device's record; and every status or
\* sensor event that is handled leaves last_seen = the server's clock.  The online
\* result at any later time is computed from last_seen and the clock alone (C5), so
\* it is the same for both.
C29_PresenceIgnoresDeviceTimestamp ==
    [][/\ \A d \in DeviceIds : \A pair \in TimestampVariants :
              LET s1 == handle_device_status(StatusTopic(d), JsonLoads(pair[1])).dd[d]
                  s2 == handle_device_status(StatusTopic(d), JsonLoads(pair[2])).dd[d]
                  d1 == handle_device_data(DataTopic(d), JsonLoads(pair[1])).dd[d]
                  d2 == handle_device_data(DataTopic(d), JsonLoads(pair[2])).dd[d]
              IN  /\ s1["last_seen"] = s2["last_seen"]
                  /\ s1["online"] = s2["online"]
                  /\ d1["last_seen"] = d2["last_seen"]
                  /\ d1["online"] = d2["online"]
       /\ \A d \in DeviceIds :
              (/\ Delivery
               /\ msg_log'.kind = "object"
               /\ msg_log'.topic \in {StatusTopic(d), DataTopic(d)})
              => /\ device_data'[d]["last_seen"] = IsoFormat(now)
                 /\ device_data'[d]["online"] = TRUE]_vars

\* C29 witness: device b's sensor event carried the timestamp 0 and was handled at a
\* later server time; is_device_online('b') answers True at a moment when the
\* payload's timestamp is more than 30 s old
C29_OnlineDespiteOldDeviceTimestamp ==
    /\ call_log.op = "is_device_online"
    /\ call_log.arg = <<"b">>
    /\ call_log.ret = TRUE
    /\ Len(SensorData(<<"b">>)) >= 1
    /\ LET last == SensorData(<<"b">>)[Len(SensorData(<<"b">>))]
       IN  /\ last["timestamp"].n = 0
           /\ device_data[<<"b">>]["last_seen"].n > 0
           /\ now - last["timestamp"].n > 30

\* the event just delivered is JSON but not an object (on a status or data topic), or
\* a JSON object on a data topic without a sensor_type or a value key
MalformedDelivery ==
    /\ Delivery
    /\ \E d \in DeviceIds :
           \/ /\ msg_log'.topic \in {StatusTopic(d), DataTopic(d)}
              /\ msg_log'.kind = "scalar"
           \/ /\ msg_log'.topic = DataTopic(d)
              /\ msg_log'.kind = "object"
              /\ LET r == submitted'[d][Len(submitted'[d])]
                 IN  "sensor_type" \notin DOMAIN r \/ "value" \notin DOMAIN r

\* C30 as claimed: such an event changes nothing (no record created or updated, no
\* evaluation dispatched) and the callback ends by returning or logging.
C30_MalformedDropped ==
    [][MalformedDelivery
       => /\ device_data' = device_data
          /\ evals' = evals
          /\ callback' \in {"returned", "error_logged"}]_vars

\* a device_condition, said with the relations of its fields: every field named by
\* the condition is in the reading and holds, an exact value by equality, a range by
\* min <= value <= max for the bounds it gives
FieldPredicatesHold(condition, reading) ==
    \A field \in DOMAIN condition \ {"type", "device_id"} :
        /\ field \in DOMAIN reading
        /\ LET expected == condition[field]
               value == reading[field]
           IN  IF "isnum" \in DOMAIN expected
               THEN value = expected
               ELSE /\ "min" \in DOMAIN expected =>
                           value.isnum /\ expected.min <= value.n
                    /\ "max" \in DOMAIN expected =>
                           value.isnum /\ value.n <= expected.max

\* the reading of the device satisfies the rule's condition
Satisfies(condition, device_id, reading) ==
    IF condition.type = "sensor_threshold"
    THEN /\ condition.sensor_type \in DOMAIN reading
         /\ reading[condition.sensor_type].isnum
         /\ Qualifies(condition, device_id, reading)
    ELSE IF condition.type = "device_condition"
    THEN condition.device_id = device_id /\ FieldPredicatesHold(condition, reading)
    ELSE FALSE

SatisfiedRules(rs, device_id, reading) ==
    {k \in 1..Len(rs) : rs[k].enabled /\ Satisfies(rs[k].condition, device_id, reading)}

\* C31 as claimed: a step of an evaluation publishes at most one command, and an
\* evaluation in which every publish failed (nothing has been published when it
\* ends) has still triggered every enabled rule its reading satisfies, all of them
\* rules that control a device.
C31_PublishFailureContained ==
    [][/\ Len(published') <= Len(published) + 1
       /\ \A i \in 1..Len(evals) :
              LET m == SatisfiedRules(rules', evals[i].device, evals[i].reading) IN
              (/\ evals[i].pc # "done"
               /\ evals'[i].pc = "done"
               /\ published' = <<>>
               /\ \A k \in m : rules'[k].action.type = "control_device")
              => evals'[i].fired = Cardinality(m)]_vars

\* the run looks at the rule its index points to in this step
LooksAtRule(i) ==
    /\ evals[i].pc = "iter"
    /\ evals'[i] # evals[i]
    /\ Len(rules) = evals[i].size
    /\ evals[i].idx <= Len(rules)
    /\ rules[evals[i].idx].enabled

\* a threshold condition whose sensor key is missing from the reading, whose reading
\* value is not a number or whose operator is not one of the five, or a condition of
\* an unknown type
NotEvaluable(condition, reading) ==
    \/ /\ condition.type = "sensor_threshold"
       /\ \/ condition.sensor_type \notin DOMAIN reading
          \/ ~reading[condition.sensor_type].isnum
          \/ condition.operator \notin Operators
    \/ condition.type \notin {"sensor_threshold", "device_condition"}

\* C32: when an evaluation looks at an enabled rule whose condition is of that
\* kind, the condition is false: the rule's action is not executed (nothing is
\* published, no alert stored, no rule changed) and the pass goes on to the next
\* rule.
C32_ConditionEvaluationTotal ==
    [][\A i \in 1..Len(evals) :
          (LooksAtRule(i) /\ NotEvaluable(rules[evals[i].idx].condition, evals[i].reading))
          => /\ evals'[i] = [evals[i] EXCEPT !.idx = evals[i].idx + 1]
             /\ UNCHANGED <<rules, alert_history, published>>]_vars

\* a pass over a rule of an unknown type and a threshold rule with the operator !=
\* (30 != 31 would hold) has ended with no rule triggered
C32_PassedOverBoth ==
    /\ Len(rules) = 2
    /\ rules[1].condition.type = "time_window"
    /\ rules[2].condition.type = "sensor_threshold"
    /\ rules[2].condition.operator = "!="
    /\ \E i \in 1..Len(evals) :
           /\ evals[i].pc = "done"
           /\ evals[i].idx = 3
           /\ evals[i].fired = 0
           /\ evals[i].device = <<"a">>
           /\ evals[i].reading = [temperature |-> JNum(31)]

\* C33: when an evaluation of (d', reading) looks at an enabled rule with a
\* device_condition for device d, the rule is triggered exactly when d' = d and every
\* field predicate of the condition holds for the reading.
C33_DeviceConditionMatchesIff ==
    [][\A i \in 1..Len(evals) :
          LET condition == rules[evals[i].idx].condition IN
          (LooksAtRule(i) /\ condition.type = "device_condition")
          => (evals'[i].pc = "store"
              <=> /\ condition.device_id = evals[i].device
                  /\ FieldPredicatesHold(condition, evals[i].reading))]_vars

\* a rule on 30 <= temperature <= 31 has been triggered by a reading of exactly 30
C33_TriggeredAtRangeBound ==
    \E i \in 1..Len(evals), k \in 1..Len(rules) :
        /\ evals[i].pc = "store"
        /\ evals[i].obj = rules[k].oid
        /\ rules[k].condition.type = "device_condition"
        /\ "temperature" \in DOMAIN rules[k].condition
        /\ rules[k].condition.temperature = [min |-> 30, max |-> 31]
        /\ evals[i].reading = [temperature |-> JNum(30)]

\* C35: in a scheduler pass at time now a task fires at most once, and a task that
\* fires gets as next_run its first fire time after now (later than now, at most one
\* period later, on the schedule's grid), however long ago its previous next_run was.
C35_NoReplayOfMissedIntervals ==
    [][(sched_pc = "pass" /\ sched_pc' = "sleeping")
       => \A k \in 1..Len(scheduled_tasks) :
              LET task == scheduled_tasks[k]
                  after == scheduled_tasks'[k]
                  period == CronPeriod(task.schedule)
              IN  /\ after.run_count \in {task.run_count, task.run_count + 1}
                  /\ after.run_count = task.run_count + 1
                     => /\ after.last_run = <<now>>
                        /\ after.next_run[1] > now
                        /\ after.next_run[1] <= now + period
                        /\ after.next_run[1] % period = 0]_vars

\* an every-minute task behind an every-other-minute task: passed over at 120, when
\* the first task fired, it has fired once at 180 with its fire times 120 and 180 both
\* elapsed, and is next due at 240
C35_FiredOnceAfterTwoElapsed ==
    /\ Len(scheduled_tasks) = 2
    /\ now = 180
    /\ sched_pc = "sleeping"
    /\ scheduled_tasks[1].schedule = "*/2 * * * *"
    /\ scheduled_tasks[1].last_run = <<120>>
    /\ scheduled_tasks[2].schedule = "* * * * *"
    /\ scheduled_tasks[2].run_count = 2
    /\ scheduled_tasks[2].last_run = <<180>>
    /\ scheduled_tasks[2].next_run = <<240>>

\* the fields a threshold rule was created from
ThresholdFields(rule) ==
    <<rule.condition.device_id, rule.condition.sensor_type, rule.condition.threshold,
      rule.condition.operator>>

\* C36 as claimed: a create_threshold_rule call whose (device_id, sensor_type,
\* threshold, operator) differ from those of a rule already in the rule set returns
\* an id different from that rule's, and that rule is still in the rule set
\* afterwards, next to the new one.
C36_RuleIdDependsOnOperator ==
    [][(call_log'.n = call_log.n + 1 /\ call_log'.op = "create_threshold_rule")
       => \A k \in 1..Len(rules) :
              ThresholdFields(rules[k]) # call_log'.arg
              => /\ call_log'.ret # rules[k].rule_id
                 /\ \E j \in 1..Len(rules') : rules'[j] = rules[k]
                 /\ \E j \in 1..Len(rules') :
                        ThresholdFields(rules'[j]) = call_log'.arg]_vars

\* what add_rule returned for the rule when it was created
ReportedAdded(rule) == add_rule(rule.rule_id, rule.condition, rule.action, rule.oid).ret

\* C37 as claimed: a create_threshold_rule call whose add_rule reports failure
\* leaves the rule set as it was, and a rule that an evaluation triggers is a rule
\* whose creation was reported as successful.
C37_CreationAllOrNothing ==
    [][/\ (call_log'.n = call_log.n + 1 /\ call_log'.op = "create_threshold_rule")
          => \A j \in 1..Len(rules') :
                 (rules'[j].rule_id = call_log'.ret /\ ~ReportedAdded(rules'[j]))
                 => rules' = rules
       /\ \A i \in 1..Len(evals) :
              (evals[i].pc = "iter" /\ evals'[i].pc = "store")
              => ReportedAdded(rules[evals[i].idx])]_vars

\* the event {sensor_type: s, value: v} read as a reading of sensor type s
ShapedAsReading(event) ==
    [s \in {event["sensor_type"].s} |-> event["value"]]

\* C38 as claimed: when the evaluation of an event {sensor_type: s, value: v} of
\* device d looks at an enabled threshold rule, the rule is triggered exactly when
\* it is a rule on (d, s, op, t) and v op t holds.
C38_ShapedEventTriggersRule ==
    [][\A i \in 1..Len(evals) :
          LET condition == rules[evals[i].idx].condition
              event == evals[i].reading
          IN  (/\ LooksAtRule(i)
               /\ condition.type = "sensor_threshold"
               /\ {"sensor_type", "value"} \subseteq DOMAIN event)
              => (evals'[i].pc = "store"
                  <=> /\ condition.sensor_type = event["sensor_type"].s
                      /\ Qualifies(condition, evals[i].device,
                                   ShapedAsReading(event)))]_vars

\* C39 as claimed: get_recent_alerts(limit) returns the last min(limit, n) alerts of
\* the buffer of n alerts, in arrival order, and leaves the buffer as it is.
C39_RecentAlertsAreLastLimit ==
    [][(call_log' # call_log /\ call_log'.op = "get_recent_alerts")
       => LET ret == call_log'.ret
              n == Len(alerts)
          IN  /\ Len(ret) = Min(call_log'.arg, n)
              /\ \A j \in 1..Len(ret) : ret[j] = alerts[n - Len(ret) + j]
              /\ alerts' = alerts]_vars

=============================================================================
